---------------------------- MODULE Spec2Model ----------------------------
(***************************************************************************)
(* Model of run_append.py: rank 0 partitions the reach identifiers found   *)
(* in the data directory over the MPI ranks, broadcasts the plan, every    *)
(* rank appends its slice, the ranks meet at a barrier, and the results    *)
(* are gathered and logged on rank 0.                                      *)
(***************************************************************************)
EXTENDS Integers, Sequences, FiniteSets, TLC

(* ------------------------------ bounds -------------------------------- *)
\* Largest number of distinct reach prefixes in the data directory (run).
MaxReach == 3
\* Largest MPI world size (run).
MaxSize == 3
\* Largest number of distinct reach prefixes when get_reach_dict is applied alone.
PlanMaxReach == 5
\* Largest communicator size when get_reach_dict is applied alone.
PlanMaxSize == 3
\* How many communicator sizes below 1 get_reach_dict is applied to alone.
PlanBelowOne == 2
\* Largest number of distinct reach prefixes when get_reach_dict is called repeatedly.
RepeatMaxReach == 3
\* Largest number of distinct reach prefixes in runs where ranks may crash.
CrashMaxReach == 2
\* Largest MPI world size in runs where ranks may crash.
CrashMaxSize == 3
\* Largest number of distinct reach prefixes in fairly scheduled runs.
FairMaxReach == 3
\* Largest MPI world size in fairly scheduled runs.
FairMaxSize == 2

(* ---------------------------- file names ------------------------------ *)
\* A file name is a sequence of one-character strings.
Chars == <<"1", "2", "3", "4", "5", "6", "7", "8", "9", "0", "A", "B", "C", "D">>

\* The entry "<c1>_<c2>_<suffix>" of reach number i (reach 1 is "1_2", reach 2 is "3_4").
EntryName(i, suffix) == <<Chars[2 * i - 1], "_", Chars[2 * i], "_", suffix>>

\* An entry with no '_' in its name.
PlainName == <<"x">>

\* The directories scandir may list: reaches 1..k, optionally a second file of
\* reach 1, optionally a file whose name has no '_'.
DirOf(k, dup, plain) ==
    {EntryName(i, "a") : i \in 1..k}
      \cup (IF dup /\ k >= 1 THEN {EntryName(1, "b")} ELSE {})
      \cup (IF plain THEN {PlainName} ELSE {})

Dirs(maxk) == {DirOf(k, dup, plain) : k \in 0..maxk, dup \in BOOLEAN, plain \in BOOLEAN}

(* --------------------------- str.split('_') --------------------------- *)
RECURSIVE SplitFrom(_, _, _, _)
\* Scans name from position p; cur is the token being read, done the tokens read.
SplitFrom(name, p, cur, done) ==
    IF p > Len(name) THEN Append(done, cur)
    ELSE IF name[p] = "_" THEN SplitFrom(name, p + 1, <<>>, Append(done, cur))
    ELSE SplitFrom(name, p + 1, Append(cur, name[p]), done)

Split(name) == SplitFrom(name, 1, <<>>, <<>>)

\* entry.name.split('_')[0] + '_' + entry.name.split('_')[1]
ReachId(name) == Split(name)[1] \o <<"_">> \o Split(name)[2]

\* The list comprehension raises IndexError on a name with fewer than two tokens.
Malformed(names) == \E n \in names : Len(Split(n)) < 2

(* ----------------------------- list(set()) ---------------------------- *)
\* The orders in which iterating the set S may yield its elements.
Enumerations(S) ==
    {f \in [1..Cardinality(S) -> S] : \A x \in S : \E i \in 1..Cardinality(S) : f[i] = x}

(* ---------------------------- get_reach_dict -------------------------- *)
EmptyDict == [i \in {} |-> <<>>]

\* reach_list[start:end] taken with the end index included.
SliceInclusive(list, start, end) ==
    SubSeq(list, IF start < Len(list) THEN start + 1 ELSE Len(list) + 1,
                 IF end + 1 < Len(list) THEN end + 1 ELSE Len(list))

\* reach_list[start:end] for 0 <= start <= end
Slice(list, start, end) ==
    SubSeq(list, IF start < Len(list) THEN start + 1 ELSE Len(list) + 1,
                 IF end < Len(list) THEN end ELSE Len(list))

\* The first loop giving a key only to the ranks whose block holds a reach.
BlocksSkippingEmpty(reach_list, size, reach_per_rank) ==
    [i \in {k \in 0..(size - 1) : reach_per_rank > 0} |->
        Slice(reach_list, i * reach_per_rank, i * reach_per_rank + reach_per_rank)]

\* the first loop: reach_dict[i] = reach_list[start:end] for i in range(size)
Blocks(reach_list, size, reach_per_rank) ==
    [i \in 0..(size - 1) |->
        Slice(reach_list, i * reach_per_rank, i * reach_per_rank + reach_per_rank)]

\* The round-robin walk that never leaves rank 0.
NextRankStuck(i, size) == 0

\* i = 0 if i == (size - 1) else i + 1
NextRank(i, size) == IF i = size - 1 THEN 0 ELSE i + 1

RECURSIVE Spread(_, _, _, _, _, _)
\* the second loop, j iterations left: appends the leftover reaches round-robin.
\* Yields [err, plan]; err is "KeyError" when rank i is no key of the dictionary.
Spread(reach_dict, reach_list, reach_count, i, j, size) ==
    IF j = 0 THEN [err |-> "none", plan |-> reach_dict]
    ELSE IF i \notin DOMAIN reach_dict THEN [err |-> "KeyError", plan |-> EmptyDict]
    ELSE Spread([reach_dict EXCEPT ![i] = Append(@, reach_list[reach_count + 1])],
                reach_list, reach_count + 1, NextRank(i, size), j - 1, size)

\* The test of the leftover that never finds one.
NeverDivisible(total, size) == FALSE

\* total_reaches % size != 0, for a size of either sign
NotDivisible(total, size) == total % (IF size < 0 THEN 0 - size ELSE size) # 0

\* get_reach_dict on a directory listing `names` (dirOK: scandir succeeds), with
\* COMM.Get_size() = size and list(set(reach_list)) = reach_list.
\* Yields [err, plan]: err is "none" or the name of the exception raised.
GetReachDict(dirOK, names, reach_list, size) ==
    IF ~dirOK THEN [err |-> "OSError", plan |-> EmptyDict]
    ELSE IF Malformed(names) THEN [err |-> "IndexError", plan |-> EmptyDict]
    ELSE IF size = 0 THEN [err |-> "ZeroDivisionError", plan |-> EmptyDict]
    ELSE
      LET total_reaches == Len(reach_list)
          reach_per_rank == IF size > 0 THEN total_reaches \div size ELSE 0
          blocks == Blocks(reach_list, size, reach_per_rank)
          reach_count == IF size > 0 THEN size * reach_per_rank ELSE 0
      IN IF NotDivisible(total_reaches, size)
           THEN Spread(blocks, reach_list, reach_count, 0,
                       total_reaches - reach_count, size)
           ELSE [err |-> "none", plan |-> blocks]

\* The reach identifiers of a listing, deduplicated: set(reach_list).
ReachSet(names) == IF Malformed(names) THEN {} ELSE {ReachId(n) : n \in names}

(* ------------------------------- state -------------------------------- *)
VARIABLES
    size,            \* COMM.Get_size()
    dirOK,           \* whether scandir(data_dir) succeeds
    entries,         \* the names scandir(data_dir) lists
    pc,              \* pc[r]: where rank r stands in run
    reach_dict,      \* reach_dict[r]: rank r's local variable reach_dict
    ret,             \* the last return of get_reach_dict: [called, by, err, plan]
    bcast_buf,       \* COMM.bcast: [sent, value], the root's object once supplied
    reach_ids,       \* reach_ids[r]: the slice rank r's AppendSOS was built with
    item,            \* item[r]: how many reaches rank r's append has processed
    valid_list,      \* valid_list[r]: rank r's append_sos.valid_list
    invalid_list,    \* invalid_list[r]: rank r's append_sos.invalid_list
    arrived,         \* COMM.barrier: the ranks that have called it
    supplied,        \* COMM.gather: the ranks that have supplied their object
    gather_buf,      \* COMM.gather: gather_buf[r] is the object rank r supplied
    results,         \* results[r]: rank r's local variable results (<<>> for None)
    total_valid_list,    \* log_results's total_valid_list
    total_invalid_list,  \* log_results's total_invalid_list
    main_log         \* main.log: the records written, [by, msg]

vars == <<size, dirOK, entries, pc, reach_dict, ret, bcast_buf, reach_ids, item,
          valid_list, invalid_list, arrived, supplied, gather_buf, results,
          total_valid_list, total_invalid_list, main_log>>

Ranks == 0..(size - 1)

NoReturn == [called |-> FALSE, by |-> 0, err |-> "none", plan |-> EmptyDict]

\* What a call of get_reach_dict by rank r leaves in ret.
Returned(r, res) == [called |-> TRUE, by |-> r, err |-> res.err, plan |-> res.plan]

\* An AppendSOS object as gather pickles it: its two result lists.
Pickled(r) == [valid_list |-> valid_list[r], invalid_list |-> invalid_list[r]]

\* The state of the ranks when run has executed lines 20-25.
InitRanks ==
    /\ pc = [r \in Ranks |-> "begin"]
    /\ reach_dict = [r \in Ranks |-> EmptyDict]
    /\ ret = NoReturn
    /\ bcast_buf = [sent |-> FALSE, value |-> EmptyDict]
    /\ reach_ids = [r \in Ranks |-> <<>>]
    /\ item = [r \in Ranks |-> 0]
    /\ valid_list = [r \in Ranks |-> <<>>]
    /\ invalid_list = [r \in Ranks |-> <<>>]
    /\ arrived = {}
    /\ supplied = {}
    /\ gather_buf = [r \in Ranks |-> [valid_list |-> <<>>, invalid_list |-> <<>>]]
    /\ results = [r \in Ranks |-> <<>>]
    /\ total_valid_list = <<>>
    /\ total_invalid_list = <<>>
    /\ main_log = <<>>

Init ==
    /\ size \in 1..MaxSize
    /\ dirOK \in BOOLEAN
    /\ entries \in Dirs(MaxReach)
    /\ InitRanks

(* ----------------------------- log_reaches ---------------------------- *)
RECURSIVE ReachLines(_, _, _, _)
\* The loop over reach_dict.items(), at key `key` of keys 0..n-1 (insertion order):
\* the lines logged from there on, total_reaches being the count so far.
ReachLines(d, key, n, total_reaches) ==
    IF key >= n THEN << <<"Total reach count: ", ToString(total_reaches)>> >>
    ELSE LET reach_count == Len(d[key])
         IN << <<ToString(key), "   Reach count:    ", ToString(reach_count)>> >>
              \o ReachLines(d, key + 1, n, total_reaches + reach_count)

\* log_reaches starting its loop at the second key.
LogReachesFromSecond(d) == ReachLines(d, 1, Cardinality(DOMAIN d), 0)

\* log_reaches logging nothing.
LogReachesNothing(d) == <<>>

\* The messages log_reaches hands to the logger, in order.
LogReachesLines(d) == ReachLines(d, 0, Cardinality(DOMAIN d), 0)

(* ----------------------------- log_results ---------------------------- *)
RECURSIVE Extend(_, _, _)
\* The loop `for append_sos in results`, from index k: the list that extending
\* with each object's valid_list ("valid") or invalid_list ("invalid") builds.
Extend(res, k, which) ==
    IF k > Len(res) THEN <<>>
    ELSE (IF which = "valid" THEN res[k].valid_list ELSE res[k].invalid_list)
           \o Extend(res, k + 1, which)

\* The invalid total extended with each object's valid_list.
TotalInvalidFromValid(res) == Extend(res, 1, "valid")

TotalValidList(res) == Extend(res, 1, "valid")
TotalInvalidList(res) == Extend(res, 1, "invalid")

RECURSIVE Join(_)
\* ', '.join(list)
Join(list) ==
    IF list = <<>> THEN <<>>
    ELSE IF Len(list) = 1 THEN list[1]
    ELSE list[1] \o <<", ">> \o Join(Tail(list))

\* The messages log_results hands to the logger, in order.
LogResultsLines(res) ==
    << <<"total valid: ", ToString(Len(TotalValidList(res)))>>,
       <<"total invalid: ", ToString(Len(TotalInvalidList(res)))>>,
       <<>>,
       <<"valid reaches:">>,
       Join(TotalValidList(res)),
       <<>>,
       <<"invalid reaches:">>,
       Join(TotalInvalidList(res)),
       <<>> >>

\* logger.info of each message by rank r: the records appended to main.log.
Written(r, msgs) == [k \in 1..Len(msgs) |-> [by |-> r, msg |-> msgs[k]]]

(* -------------------------------- run --------------------------------- *)
\* The guard that lets every rank in.
EveryRank(r) == TRUE

\* `if rank == 0:` (lines 26 and 38)
RankZeroOnly(r) == r = 0

\* reach_dict = get_reach_dict(data_dir), the set being iterated in any order.
\* An exception leaves run: the rank's process ends.
Plan(r) ==
    /\ pc[r] = "begin"
    /\ RankZeroOnly(r)
    /\ \E reach_list \in Enumerations(ReachSet(entries)) :
         LET res == GetReachDict(dirOK, entries, reach_list, size)
         IN /\ ret' = Returned(r, res)
            /\ IF res.err = "none"
                 THEN /\ reach_dict' = [reach_dict EXCEPT ![r] = res.plan]
                      /\ pc' = [pc EXCEPT ![r] = "planned"]
                 ELSE /\ reach_dict' = reach_dict
                      /\ pc' = [pc EXCEPT ![r] = "failed"]
    /\ UNCHANGED <<size, dirOK, entries, bcast_buf, reach_ids, item, valid_list,
                   invalid_list, arrived, supplied, gather_buf, results,
                   total_valid_list, total_invalid_list, main_log>>

\* log_reaches(main_logger, reach_dict)
LogReaches(r) ==
    /\ pc[r] = "planned"
    /\ main_log' = main_log \o Written(r, LogReachesLines(reach_dict[r]))
    /\ pc' = [pc EXCEPT ![r] = "at_bcast"]
    /\ UNCHANGED <<size, dirOK, entries, reach_dict, ret, bcast_buf, reach_ids, item,
                   valid_list, invalid_list, arrived, supplied, gather_buf, results,
                   total_valid_list, total_invalid_list>>

\* The rank calls COMM.bcast(reach_dict, root=0); the root supplies its object.
BcastCall(r) ==
    /\ \/ pc[r] = "at_bcast"
       \/ pc[r] = "begin" /\ ~RankZeroOnly(r)
    /\ bcast_buf' = IF r = 0 THEN [sent |-> TRUE, value |-> reach_dict[r]] ELSE bcast_buf
    /\ pc' = [pc EXCEPT ![r] = "in_bcast"]
    /\ UNCHANGED <<size, dirOK, entries, reach_dict, ret, reach_ids, item, valid_list,
                   invalid_list, arrived, supplied, gather_buf, results,
                   total_valid_list, total_invalid_list, main_log>>

\* Whether a rank inside bcast can return: the root's object is there.
BcastReady == bcast_buf.sent

\* COMM.bcast returns the root's object, assigned to reach_dict.
BcastReturn(r) ==
    /\ pc[r] = "in_bcast"
    /\ BcastReady
    /\ reach_dict' = [reach_dict EXCEPT ![r] = bcast_buf.value]
    /\ pc' = [pc EXCEPT ![r] = "bcast_done"]
    /\ UNCHANGED <<size, dirOK, entries, ret, bcast_buf, reach_ids, item, valid_list,
                   invalid_list, arrived, supplied, gather_buf, results,
                   total_valid_list, total_invalid_list, main_log>>

\* The slice of rank 0 handed to every rank.
RankSliceOfRoot(d, r) == d[0]

\* The slice handed to AppendSOS: reach_dict[rank]
RankSlice(d, r) == d[r]

\* append_sos = AppendSOS(Path(data_dir), rank_logger, reach_dict[rank]);
\* reach_dict[rank] raises KeyError when the rank is no key.
Construct(r) ==
    /\ pc[r] = "bcast_done"
    /\ IF r \in DOMAIN reach_dict[r]
         THEN /\ reach_ids' = [reach_ids EXCEPT ![r] = RankSlice(reach_dict[r], r)]
              /\ pc' = [pc EXCEPT ![r] = "append"]
         ELSE /\ reach_ids' = reach_ids
              /\ pc' = [pc EXCEPT ![r] = "failed"]
    /\ UNCHANGED <<size, dirOK, entries, reach_dict, ret, bcast_buf, item, valid_list,
                   invalid_list, arrived, supplied, gather_buf, results,
                   total_valid_list, total_invalid_list, main_log>>

\* An append that records a failed reach and then lets the failure end run.
AppendItemAborting(r) ==
    /\ pc[r] = "append"
    /\ item[r] < Len(reach_ids[r])
    /\ \E ok \in BOOLEAN :
         LET reach == reach_ids[r][item[r] + 1]
         IN /\ valid_list' = IF ok THEN [valid_list EXCEPT ![r] = Append(@, reach)]
                             ELSE valid_list
            /\ invalid_list' = IF ok THEN invalid_list
                               ELSE [invalid_list EXCEPT ![r] = Append(@, reach)]
            /\ pc' = IF ok THEN pc ELSE [pc EXCEPT ![r] = "failed"]
    /\ item' = [item EXCEPT ![r] = @ + 1]
    /\ UNCHANGED <<size, dirOK, entries, reach_dict, ret, bcast_buf, reach_ids,
                   arrived, supplied, gather_buf, results, total_valid_list,
                   total_invalid_list, main_log>>

\* One reach of append_sos.append(): the next reach of the slice is classified
\* valid or invalid and appended to the matching list.
AppendItem(r) ==
    /\ pc[r] = "append"
    /\ item[r] < Len(reach_ids[r])
    /\ \E ok \in BOOLEAN :
         LET reach == reach_ids[r][item[r] + 1]
         IN /\ valid_list' = IF ok THEN [valid_list EXCEPT ![r] = Append(@, reach)]
                             ELSE valid_list
            /\ invalid_list' = IF ok THEN invalid_list
                               ELSE [invalid_list EXCEPT ![r] = Append(@, reach)]
    /\ item' = [item EXCEPT ![r] = @ + 1]
    /\ UNCHANGED <<size, dirOK, entries, pc, reach_dict, ret, bcast_buf, reach_ids,
                   arrived, supplied, gather_buf, results, total_valid_list,
                   total_invalid_list, main_log>>

\* append_sos.append() has returned and the rank calls COMM.barrier().
BarrierCall(r) ==
    /\ pc[r] = "append"
    /\ item[r] = Len(reach_ids[r])
    /\ arrived' = arrived \cup {r}
    /\ pc' = [pc EXCEPT ![r] = "in_barrier"]
    /\ UNCHANGED <<size, dirOK, entries, reach_dict, ret, bcast_buf, reach_ids, item,
                   valid_list, invalid_list, supplied, gather_buf, results,
                   total_valid_list, total_invalid_list, main_log>>

\* A barrier that holds no rank back.
BarrierSkipped == TRUE

\* Whether a rank inside the barrier can leave: every rank has called it.
BarrierOpen == arrived = Ranks

\* COMM.barrier() returns.
BarrierReturn(r) ==
    /\ pc[r] = "in_barrier"
    /\ BarrierOpen
    /\ pc' = [pc EXCEPT ![r] = "at_gather"]
    /\ UNCHANGED <<size, dirOK, entries, reach_dict, ret, bcast_buf, reach_ids, item,
                   valid_list, invalid_list, arrived, supplied, gather_buf, results,
                   total_valid_list, total_invalid_list, main_log>>

\* The rank calls COMM.gather(append_sos, root = 0) and supplies its object.
GatherCall(r) ==
    /\ pc[r] = "at_gather"
    /\ supplied' = supplied \cup {r}
    /\ gather_buf' = [gather_buf EXCEPT ![r] = Pickled(r)]
    /\ pc' = [pc EXCEPT ![r] = "in_gather"]
    /\ UNCHANGED <<size, dirOK, entries, reach_dict, ret, bcast_buf, reach_ids, item,
                   valid_list, invalid_list, arrived, results, total_valid_list,
                   total_invalid_list, main_log>>

\* A gather that returns at the root without waiting for the other ranks.
GatherWithoutWaiting == TRUE

\* Whether the root's gather can return: every rank has supplied its object.
GatherComplete == supplied = Ranks

\* The supplied objects in descending rank order.
GatheredBackwards == [k \in 1..size |-> gather_buf[size - k]]

\* What gather returns at the root: the supplied objects, indexed by rank.
Gathered == [k \in 1..size |-> gather_buf[k - 1]]

\* COMM.gather returns: the list of objects at the root, None elsewhere. A rank
\* for which `if rank == 0` is false has then reached the end of run.
GatherReturn(r) ==
    /\ pc[r] = "in_gather"
    /\ r = 0 => GatherComplete
    /\ results' = [results EXCEPT ![r] = IF r = 0 THEN Gathered ELSE <<>>]
    /\ pc' = [pc EXCEPT ![r] = IF RankZeroOnly(r) THEN "gathered" ELSE "done"]
    /\ UNCHANGED <<size, dirOK, entries, reach_dict, ret, bcast_buf, reach_ids, item,
                   valid_list, invalid_list, arrived, supplied, gather_buf,
                   total_valid_list, total_invalid_list, main_log>>

\* log_results(main_logger, results)
LogResults(r) ==
    /\ pc[r] = "gathered"
    /\ total_valid_list' = TotalValidList(results[r])
    /\ total_invalid_list' = TotalInvalidList(results[r])
    /\ main_log' = main_log \o Written(r, LogResultsLines(results[r]))
    /\ pc' = [pc EXCEPT ![r] = "done"]
    /\ UNCHANGED <<size, dirOK, entries, reach_dict, ret, bcast_buf, reach_ids, item,
                   valid_list, invalid_list, arrived, supplied, gather_buf, results>>

Next ==
    \/ \E r \in Ranks : Plan(r)
    \/ \E r \in Ranks : LogReaches(r)
    \/ \E r \in Ranks : BcastCall(r)
    \/ \E r \in Ranks : BcastReturn(r)
    \/ \E r \in Ranks : Construct(r)
    \/ \E r \in Ranks : AppendItem(r)
    \/ \E r \in Ranks : BarrierCall(r)
    \/ \E r \in Ranks : BarrierReturn(r)
    \/ \E r \in Ranks : GatherCall(r)
    \/ \E r \in Ranks : GatherReturn(r)
    \/ \E r \in Ranks : LogResults(r)

Spec == Init /\ [][Next]_vars

(* ----------------------- get_reach_dict on its own -------------------- *)
\* get_reach_dict applied to a directory and a communicator size, no rank running.
InitPartition ==
    /\ size \in (1 - PlanBelowOne)..PlanMaxSize
    /\ dirOK \in BOOLEAN
    /\ entries \in Dirs(PlanMaxReach)
    /\ InitRanks

\* A call of get_reach_dict(data_dir), the set being iterated in any order.
CallGetReachDict ==
    /\ \E reach_list \in Enumerations(ReachSet(entries)) :
         ret' = Returned(0, GetReachDict(dirOK, entries, reach_list, size))
    /\ UNCHANGED <<size, dirOK, entries, pc, reach_dict, bcast_buf, reach_ids, item,
                   valid_list, invalid_list, arrived, supplied, gather_buf, results,
                   total_valid_list, total_invalid_list, main_log>>

\* get_reach_dict called once.
FirstCall == ~ret.called /\ CallGetReachDict

NextPartition == FirstCall

SpecPartition == InitPartition /\ [][NextPartition]_vars

\* get_reach_dict called any number of times on one directory, as successive
\* runs of the program on unchanged data do.
InitRepeat ==
    /\ size \in 1..PlanMaxSize
    /\ dirOK \in BOOLEAN
    /\ entries \in Dirs(RepeatMaxReach)
    /\ InitRanks

NextRepeat == CallGetReachDict

SpecRepeat == InitRepeat /\ [][NextRepeat]_vars

(* ------------------------- runs with crashing ranks ------------------- *)
InitCrash ==
    /\ size \in 1..CrashMaxSize
    /\ dirOK \in BOOLEAN
    /\ entries \in Dirs(CrashMaxReach)
    /\ InitRanks

\* The process of rank r dies (an uncaught exception of AppendSOS, a kill)
\* anywhere before the end of run; what it has handed to MPI stays handed.
Crash(r) ==
    /\ pc[r] \notin {"done", "failed", "crashed"}
    /\ pc' = [pc EXCEPT ![r] = "crashed"]
    /\ UNCHANGED <<size, dirOK, entries, reach_dict, ret, bcast_buf, reach_ids, item,
                   valid_list, invalid_list, arrived, supplied, gather_buf, results,
                   total_valid_list, total_invalid_list, main_log>>

NextCrash ==
    \/ Next
    \/ \E r \in Ranks : Crash(r)

SpecCrash == InitCrash /\ [][NextCrash]_vars

(* ------------------------ fairly scheduled runs ----------------------- *)
InitFair ==
    /\ size \in 1..FairMaxSize
    /\ dirOK \in BOOLEAN
    /\ entries \in Dirs(FairMaxReach)
    /\ InitRanks

\* Any step of rank r's process.
RankStep(r) ==
    \/ Plan(r)
    \/ LogReaches(r)
    \/ BcastCall(r)
    \/ BcastReturn(r)
    \/ Construct(r)
    \/ AppendItem(r)
    \/ BarrierCall(r)
    \/ BarrierReturn(r)
    \/ GatherCall(r)
    \/ GatherReturn(r)
    \/ LogResults(r)

\* Every rank is a process of its own: one that can take a step takes it.
Fairness == \A r \in 0..(FairMaxSize - 1) : WF_vars(r \in Ranks /\ RankStep(r))

SpecFair == InitFair /\ [][Next]_vars /\ Fairness

(* ------------------------------ properties --------------------------- *)
\* The deduplicated reach identifiers of the directory.
Keys == ReachSet(entries)

\* The places (rank, index) of a plan that hold reach k.
Places(plan, k) == {<<r, i>> \in (DOMAIN plan) \X (1..Cardinality(Keys)) :
                      i <= Len(plan[r]) /\ plan[r][i] = k}

\* get_reach_dict returned a plan for a communicator of at least one rank.
PlanBuilt == ret.called /\ ret.err = "none" /\ size >= 1

\* C1: for every directory and every size N >= 1, the plan get_reach_dict returns
\* has one sequence per rank 0..N-1, holds nothing but deduplicated reach
\* identifiers, and holds each of them at exactly one place: the sequences are
\* pairwise disjoint, repeat nothing and omit nothing.
C1_ExactlyOnce ==
    PlanBuilt =>
        /\ DOMAIN ret.plan = 0..(size - 1)
        /\ \A r \in DOMAIN ret.plan : \A i \in 1..Len(ret.plan[r]) : ret.plan[r][i] \in Keys
        /\ \A k \in Keys : Cardinality(Places(ret.plan, k)) = 1

\* A plan built for 3 ranks from 5 reaches, the directory holding two files of one reach.
C1_Witness ==
    /\ PlanBuilt
    /\ size = 3
    /\ Cardinality(Keys) = 5
    /\ Cardinality(entries) = 6

\* The ranks whose sequence in the plan has n reaches.
RanksWith(plan, n) == {r \in DOMAIN plan : Len(plan[r]) = n}

\* C2: for every size N >= 1 and every total T of deduplicated reaches, exactly
\* T mod N ranks receive floor(T/N)+1 reaches and the others floor(T/N), so the
\* counts differ by at most 1; T = 5 and N = 3 give 2, 2, 1 to ranks 0, 1, 2.
C2_Balanced ==
    PlanBuilt =>
        LET T == Cardinality(Keys)
            base == T \div size
        IN /\ Cardinality(RanksWith(ret.plan, base + 1)) = T % size
           /\ Cardinality(RanksWith(ret.plan, base)) = size - (T % size)
           /\ \A r, q \in DOMAIN ret.plan : Len(ret.plan[r]) - Len(ret.plan[q]) <= 1
           /\ (T = 5 /\ size = 3) =>
                 /\ Len(ret.plan[0]) = 2
                 /\ Len(ret.plan[1]) = 2
                 /\ Len(ret.plan[2]) = 1

\* A plan built for 3 ranks from 5 reaches.
C2_Witness == PlanBuilt /\ size = 3 /\ Cardinality(Keys) = 5 /\ Len(ret.plan[2]) = 1

\* C3: calling get_reach_dict again on the same directory with the same size
\* returns the plan it returned before.
C3_SamePlanAgain == [][(ret.called /\ ret'.called) => ret'.plan = ret.plan]_vars

\* The ranks that have called COMM.gather.
InGather == {r \in Ranks : pc[r] \in {"in_gather", "gathered", "done"}}

\* Rank q's append_sos.append() has returned and q has called COMM.barrier().
FinishedLocal(q) ==
    /\ pc[q] \in {"in_barrier", "at_gather", "in_gather", "gathered", "done"}
    /\ item[q] = Len(reach_ids[q])
    /\ q \in arrived

\* C4: whenever some rank has begun its gather call, every rank has finished its
\* local processing and has arrived at the barrier.
C4_GatherAfterBarrier == InGather # {} => \A q \in Ranks : FinishedLocal(q)

\* Of 3 ranks one has begun gather while another, which processed a reach, is
\* still inside the barrier.
C4_Witness ==
    /\ size = 3
    /\ \E r, q \in Ranks : /\ pc[r] = "in_gather"
                           /\ pc[q] = "in_barrier"
                           /\ item[q] >= 1

\* The ranks for which COMM.bcast has returned.
PastBcast == {r \in Ranks : pc[r] \in {"bcast_done", "append", "in_barrier", "at_gather",
                                         "in_gather", "gathered", "done"}}

\* The ranks whose AppendSOS has been constructed.
Processing == PastBcast \ {r \in Ranks : pc[r] = "bcast_done"}

\* C5: get_reach_dict is called by rank 0 only; once the broadcast has returned
\* on rank r, and for the rest of the run, r's reach_dict is the plan rank 0
\* computed, and the slice r processes is that plan's entry for r.
C5_OnePlan ==
    /\ ret.called => ret.by = 0
    /\ \A r \in PastBcast : ret.called /\ ret.err = "none" /\ reach_dict[r] = ret.plan
    /\ \A r \in Processing : reach_ids[r] = ret.plan[r]

\* Three ranks have finished the run on three reaches, rank 2 having processed
\* its own entry of the plan.
C5_Witness ==
    /\ size = 3
    /\ Cardinality(Keys) = 3
    /\ \A r \in Ranks : pc[r] = "done"
    /\ item[2] = 1
    /\ reach_ids[2] # reach_ids[0]

RECURSIVE ByRank(_, _)
\* The lists of f for ranks r, r+1, ..., size-1, one after the other.
ByRank(f, r) == IF r >= size THEN <<>> ELSE f[r] \o ByRank(f, r + 1)

\* The record log_results wrote as its k-th message, if main.log ends with them.
ReportLine(k) == main_log[Len(main_log) - 9 + k]

\* C6: when rank 0 has logged the results, its total valid list is the ranks'
\* valid lists one after the other in rank order 0..N-1, each in its own order,
\* likewise the invalid list, and the totals reported are their lengths.
C6_RankOrder ==
    pc[0] = "done" =>
        /\ total_valid_list = ByRank(valid_list, 0)
        /\ total_invalid_list = ByRank(invalid_list, 0)
        /\ Len(main_log) >= 9
        /\ ReportLine(1).msg = <<"total valid: ", ToString(Len(ByRank(valid_list, 0)))>>
        /\ ReportLine(2).msg = <<"total invalid: ", ToString(Len(ByRank(invalid_list, 0)))>>

\* Rank 0 has logged the results of 3 ranks; ranks 0 and 2 each found a valid
\* reach and rank 1 an invalid one.
C6_Witness ==
    /\ size = 3
    /\ pc[0] = "done"
    /\ Len(valid_list[0]) = 1
    /\ Len(invalid_list[1]) = 1
    /\ Len(valid_list[2]) = 1

\* How many entries of list are the reach k.
Occurrences(list, k) == Cardinality({i \in 1..Len(list) : list[i] = k})

\* C7: when rank 0 has logged the results, the lengths of the total valid and
\* total invalid lists add up to the number of deduplicated reaches, and every
\* deduplicated reach occurs exactly once in the two lists together.
C7_AllAccounted ==
    pc[0] = "done" =>
        /\ Len(total_valid_list) + Len(total_invalid_list) = Cardinality(Keys)
        /\ \A k \in Keys : Occurrences(total_valid_list \o total_invalid_list, k) = 1

\* Rank 0 has logged the results of a run on three reaches of which some were
\* valid and some invalid, the directory holding two files of one reach.
C7_Witness ==
    /\ pc[0] = "done"
    /\ Cardinality(Keys) = 3
    /\ Cardinality(entries) = 4
    /\ size = 2
    /\ Len(total_valid_list) = 2
    /\ Len(total_invalid_list) = 1

\* The positions of main.log that open an aggregate report.
ReportStarts == {i \in DOMAIN main_log : /\ Len(main_log[i].msg) >= 1
                                          /\ main_log[i].msg[1] = "total valid: "}

\* C8: every record of main.log is written by rank 0; the aggregate report is
\* written at most once, and only when gather has delivered the objects of all
\* N ranks to rank 0.
C8_ReportOnceByRoot ==
    /\ \A i \in DOMAIN main_log : main_log[i].by = 0
    /\ Cardinality(ReportStarts) <= 1
    /\ ReportStarts # {} => /\ supplied = Ranks
                            /\ Len(results[0]) = size
                            /\ results[0] = Gathered

\* Every one of 3 ranks has ended and main.log holds the partition summary and
\* the aggregate report.
C8_Witness ==
    /\ size = 3
    /\ \A r \in Ranks : pc[r] = "done"
    /\ Cardinality(ReportStarts) = 1
    /\ Len(main_log) = 4 + 9

Coordinating == {r \in Ranks : pc[r] \notin {"begin", "planned", "at_bcast", "failed"}}

\* C10: when the directory scan on rank 0 has failed, no rank has entered
\* broadcast, barrier or gather, and no rank has processed a reach.
C10_FailsBeforeCoordination ==
    (ret.called /\ ret.err = "OSError") =>
        /\ Coordinating = {}
        /\ \A r \in Ranks : item[r] = 0

\* The ranks that have died (crashed, or left run by an exception) before
\* calling COMM.gather: each of them misses a collective call for good.
Missing == {r \in Ranks : pc[r] \in {"crashed", "failed"} /\ r \notin supplied}

\* C11: once a rank has died without having made its broadcast, barrier and
\* gather calls, rank 0 has written no aggregate report and has not finished;
\* such a rank stays dead, so no report line is ever written in that run.
C11_StallNoReport ==
    Missing # {} => /\ ReportStarts = {}
                    /\ pc[0] # "done"

\* Of 3 ranks one died between the barrier and its gather call; another has
\* finished and rank 0 waits inside gather.
C11_Witness ==
    /\ size = 3
    /\ pc[0] = "in_gather"
    /\ \E r, q \in Ranks : /\ pc[r] = "crashed"
                           /\ r \in arrived
                           /\ r \notin supplied
                           /\ pc[q] = "done"

\* Some rank has recorded a reach whose processing failed.
HasFailure == \E r \in Ranks : invalid_list[r] # <<>>

\* Every rank has processed its whole slice and finished, and rank 0 has
\* written the aggregate report, which lists every failed reach.
ReportedAll ==
    /\ \A r \in Ranks : /\ pc[r] = "done"
                        /\ item[r] = Len(reach_ids[r])
                        /\ \A i \in 1..Len(invalid_list[r]) :
                              Occurrences(total_invalid_list, invalid_list[r][i]) = 1
    /\ ReportStarts # {}

\* C12: a reach whose processing failed is in its rank's invalid list, and from
\* then on the run goes on: that rank processes the rest of its slice, every
\* rank passes the barrier and the gather, and rank 0 writes the report.
C12_FailureContained == HasFailure ~> ReportedAll

\* The run has finished with its report, a rank having processed a valid reach
\* after a failed one while another rank worked on its own slice.
C12_Witness ==
    /\ size = 2
    /\ ReportedAll
    /\ \E r \in Ranks : /\ Len(reach_ids[r]) = 2
                        /\ invalid_list[r] = <<reach_ids[r][1]>>
                        /\ valid_list[r] = <<reach_ids[r][2]>>

\* get_reach_dict was called on a readable directory of well-formed names that
\* holds fewer reaches than there are ranks.
FewerThanRanks ==
    /\ ret.called
    /\ dirOK
    /\ ~Malformed(entries)
    /\ Cardinality(Keys) < size

\* C13: with fewer reaches than ranks get_reach_dict raises nothing and the plan
\* has an entry for every rank, some empty; no rank fails to find its entry, a
\* finished run had every rank at the barrier and in the gather, and with no
\* reach at all the report says 0 valid and 0 invalid.
C13_EmptySlices ==
    FewerThanRanks =>
        /\ ret.err = "none"
        /\ DOMAIN ret.plan = Ranks
        /\ \E r \in Ranks : ret.plan[r] = <<>>
        /\ \A r \in Ranks : pc[r] # "failed"
        /\ pc[0] = "done" =>
              /\ arrived = Ranks
              /\ supplied = Ranks
              /\ Keys = {} =>
                    /\ ReportLine(1).msg = <<"total valid: ", "0">>
                    /\ ReportLine(2).msg = <<"total invalid: ", "0">>
                    /\ total_valid_list = <<>>
                    /\ total_invalid_list = <<>>

\* A run of 3 ranks on a single reach has finished: ranks 1 and 2 had empty
\* slices and went through the barrier and the gather.
C13_Witness ==
    /\ size = 3
    /\ Cardinality(Keys) = 1
    /\ \A r \in Ranks : pc[r] = "done"
    /\ reach_ids[1] = <<>>
    /\ reach_ids[2] = <<>>
    /\ supplied = Ranks

\* get_reach_dict was called for 2 ranks on the directory {1_2_a, 1_2_b, 3_4_a}.
ScenarioA ==
    /\ ret.called
    /\ dirOK
    /\ size = 2
    /\ entries = {EntryName(1, "a"), EntryName(1, "b"), EntryName(2, "a")}

\* C14: each reach identifier is the first two '_'-separated tokens of a name
\* joined by '_', names sharing them giving one identifier: the directory
\* {1_2_a, 1_2_b, 3_4_a} has the identifiers {1_2, 3_4}, and its plan for 2
\* ranks is {0: [1_2], 1: [3_4]}.
C14_ScenarioA ==
    ScenarioA =>
        /\ Keys = {<<"1", "_", "2">>, <<"3", "_", "4">>}
        /\ ret.err = "none"
        /\ ret.plan = (0 :> << <<"1", "_", "2">> >> @@ 1 :> << <<"3", "_", "4">> >>)

\* The plan that blocks of `base` reaches of the enumeration k, then one leftover
\* k[N*base + i + 1] for each rank i below T mod N, make (k counted from 1).
BlockPlan(k) ==
    LET T == Len(k)
        base == T \div size
    IN [i \in 0..(size - 1) |->
          SubSeq(k, i * base + 1, (i + 1) * base)
            \o (IF i < T % size THEN <<k[size * base + i + 1]>> ELSE <<>>)]

\* The enumeration a plan is read back to: the first `base` reaches of every
\* rank in rank order, then what each rank holds beyond them, in rank order.
ReadBack(plan) ==
    LET base == Cardinality(Keys) \div size
        Cut(n) == IF n < base THEN n ELSE base
    IN ByRank([i \in 0..(size - 1) |-> SubSeq(plan[i], 1, Cut(Len(plan[i])))], 0)
         \o ByRank([i \in 0..(size - 1) |->
                      SubSeq(plan[i], Cut(Len(plan[i])) + 1, Len(plan[i]))], 0)

\* C15: the plan read back is an enumeration k of the deduplicated reaches, and
\* the plan gives rank i the block k[i*base .. (i+1)*base - 1] followed, for
\* i < T mod N, by the one leftover k[N*base + i]; the ranks with an extra reach
\* are exactly ranks 0 .. (T mod N)-1 and each has just one extra.
C15_BlocksThenLeftovers ==
    PlanBuilt =>
        LET k == ReadBack(ret.plan)
        IN /\ Len(k) = Cardinality(Keys)
           /\ \A x \in Keys : \E i \in 1..Len(k) : k[i] = x
           /\ ret.plan = BlockPlan(k)
           /\ \A i \in 0..(size - 1) :
                 Len(ret.plan[i]) = (Cardinality(Keys) \div size)
                                      + (IF i < Cardinality(Keys) % size THEN 1 ELSE 0)

\* A plan for 3 ranks from 5 reaches: ranks 0 and 1 hold a block of one and a
\* leftover, rank 2 its block alone.
C15_Witness ==
    /\ PlanBuilt
    /\ size = 3
    /\ Cardinality(Keys) = 5
    /\ Len(ret.plan[0]) = 2
    /\ Len(ret.plan[2]) = 1

\* Rank 0 has returned from log_reaches.
SummaryLogged == pc[0] \notin {"begin", "planned", "failed", "crashed"}

\* The positions of main.log that hold a line of the given first token.
LinesStarting(token) == {i \in DOMAIN main_log : /\ Len(main_log[i].msg) >= 1
                                                  /\ main_log[i].msg[1] = token}

\* The positions of main.log that hold a per-rank count line.
CountLines == {i \in DOMAIN main_log : /\ Len(main_log[i].msg) = 3
                                        /\ main_log[i].msg[2] = "   Reach count:    "}

\* C16: once log_reaches has run, main.log opens with one count line per rank,
\* in rank order, giving the length of that rank's sequence, then one total
\* line giving the number of deduplicated reaches; there is no other count or
\* total line.
C16_Summary ==
    SummaryLogged =>
        /\ Len(main_log) >= size + 1
        /\ \A r \in Ranks :
              main_log[r + 1].msg
                 = <<ToString(r), "   Reach count:    ", ToString(Len(ret.plan[r]))>>
        /\ main_log[size + 1].msg = <<"Total reach count: ", ToString(Cardinality(Keys))>>
        /\ CountLines = 1..size
        /\ LinesStarting("Total reach count: ") = {size + 1}

\* The summary of a plan for 3 ranks from 3 reaches, two files sharing a reach,
\* has just been logged.
C16_Witness ==
    /\ pc[0] = "at_bcast"
    /\ size = 3
    /\ Cardinality(Keys) = 3
    /\ Cardinality(entries) = 4
    /\ Len(main_log) = 4

\* The ranks that have an AppendSOS, whose append may have begun.
Started == {r \in Ranks : pc[r] \in {"append", "in_barrier", "at_gather", "in_gather",
                                       "gathered", "done"} \/ item[r] > 0}

\* C18: whenever a rank has begun processing, rank 0 has computed the plan and
\* main.log holds the whole partition summary; the aggregate report, when
\* there is one, comes after the summary's total line.
C18_SummaryFirst ==
    /\ Started # {} =>
          /\ ret.called /\ ret.err = "none"
          /\ Len(main_log) >= size + 1
          /\ CountLines = 1..size
          /\ LinesStarting("Total reach count: ") = {size + 1}
    /\ \A i \in ReportStarts : i > size + 1 /\ size + 1 \in LinesStarting("Total reach count: ")

\* Rank 1 of 2 is processing its slice while rank 0 is still inside bcast, the
\* summary being in main.log.
C18_Witness ==
    /\ size = 2
    /\ pc[1] = "append"
    /\ item[1] = 1
    /\ pc[0] = "in_bcast"
    /\ Len(main_log) = 3

\* Every rank has reached the end of run and rank 0 has written the report.
AllDone == (\A r \in Ranks : pc[r] = "done") /\ ReportStarts # {}

\* C17: under fair scheduling, when scandir succeeds (and append returns on
\* every rank, as it does in these runs), every rank eventually gets through
\* broadcast, barrier and gather and ends, and rank 0 writes the report.
C17_Terminates == dirOK => <>AllDone

\* The same when, besides, every name in the directory has its two
\* '_'-separated tokens, so that the list comprehension of line 47 completes.
TerminatesOnWellFormedNames == (dirOK /\ ~Malformed(entries)) => <>AllDone

=============================================================================
